---- MODULE Spec2Model ----
(***************************************************************************)
(* The AMBER process handle of BioSimSpace (Process/amber.py): the energy  *)
(* record store fed from the energy info file, the watchdog observer that  *)
(* calls the update routine, the start/kill/wait lifecycle, the record     *)
(* query surface, construction and the trajectory frames; and the atom     *)
(* matching, alignment and merging functions of Align/__init__.py.         *)
(*                                                                         *)
(* Text is modelled by strings.  A line of the energy info file carries    *)
(* the views the update routine takes of it: whether its first character   *)
(* is '|' (bar), whether it holds an '=' sign (eq), its whitespace split   *)
(* (toks) and the (key, value) pairs the findall pattern extracts (recs).  *)
(***************************************************************************)
EXTENDS Integers, Sequences, FiniteSets, TLC

\* ---------------------------------------------------------------- bounds
\* Largest step count the engine writes.
MaxStep == 2
\* Most frames the energy info file holds at once.
MaxFrames == 3
\* Most values kept per record key (caps the growth of the store).
MaxRecords == 4
\* Observer threads ever created for one handle (effective start() calls).
MaxObservers == 2
\* Events pending in one observer's queue.
MaxPending == 1
\* Most candidate mappings the substructure search returns.
MaxMappings == 3
\* Largest RMSD score of a candidate mapping.
MaxScore == 2
\* Most frames of a trajectory.
MaxTraj == 3

VARIABLES
    protocol,     \* self._protocol.type(): "MINIMISATION" or "PRODUCTION"
    nrg_file,     \* contents of self._nrg_file: a sequence of lines
    stdout_dict,  \* self._stdout_dict: record key -> sequence of value strings
    is_watching,  \* self._is_watching
    process,      \* self._process: "none", "running" or "exited"
    watcher,      \* self._watcher: 0 (None) or the index of its observer
    observer,     \* observer thread i: "unborn", "live", "stopped" or "crashed"
    queue,        \* observer thread i: its pending file-system events
    hpc,          \* observer thread i: position inside Handler.on_any_event
    owner,        \* the owning thread: "idle", blocked in "wait" or in a "query"
    last_call,    \* the last lifecycle call that returned on the owning thread
    reply,        \* the last record query: the call, its result, the keys it saw
    writes,       \* writes to the file since the last update: 0, 1, or 2 for more
    upd,          \* thread t inside _update_energy_dict: its place in the file
    call          \* the last call outside the record surface and its outcome

vars == <<protocol, nrg_file, stdout_dict, is_watching, process, watcher,
          observer, queue, hpc, owner, last_call, reply, writes, upd, call>>

\* ------------------------------------------------------------------ text
\* Decimal numerals, as the strings the log file holds.
Numerals == <<"1", "2", "3", "4", "5", "6", "7", "8", "9">>

\* int(x) and float(x) on a numeral: the number the string denotes.
ParseNumber(x) == CHOOSE i \in 1..Len(Numerals) : Numerals[i] = x

\* The step counts the engine writes, as strings.
Steps == {Numerals[i] : i \in 1..MaxStep}

\* The energy value printed next to every step count.
EnergyText == "9"

\* The last element of a sequence: s[-1].
Last(s) == s[Len(s)]

Protocols == {"MINIMISATION", "PRODUCTION"}

\* A summary banner: its first character is '|'.
BannerLine == [bar |-> TRUE, eq |-> FALSE, toks |-> <<"|">>, recs |-> <<>>]

\* Dynamics dialect: the first line of a frame, " NSTEP = s  TIME(PS) = e".
KvLine(s) ==
    [bar |-> FALSE, eq |-> TRUE,
     toks |-> <<"NSTEP", "=", s, "TIME(PS)", "=", EnergyText>>,
     recs |-> << <<"NSTEP", s>>, <<"TIME(PS)", EnergyText>> >>]

\* Dynamics dialect: the line " Etot = e" that follows it (upper-cased by
\* the update routine before the pattern is applied).
EtotLine ==
    [bar |-> FALSE, eq |-> TRUE, toks |-> <<"ETOT", "=", EnergyText>>,
     recs |-> << <<"ETOT", EnergyText>> >>]

\* Minimisation dialect: the header line "NSTEP ENERGY".
HeaderLine ==
    [bar |-> FALSE, eq |-> FALSE, toks |-> <<"NSTEP", "ENERGY">>, recs |-> <<>>]

\* Minimisation dialect: the positional data line "s e".
DataLine(s) ==
    [bar |-> FALSE, eq |-> FALSE, toks |-> <<s, EnergyText>>, recs |-> <<>>]

\* Minimisation dialect: the line " BOND = e" that follows the data line.
BondLine ==
    [bar |-> FALSE, eq |-> TRUE, toks |-> <<"BOND", "=", EnergyText>>,
     recs |-> << <<"BOND", EnergyText>> >>]

\* The lines of one complete frame in the dialect of the protocol.
FrameLines(prot, s) ==
    IF prot = "MINIMISATION" THEN <<HeaderLine, DataLine(s), BondLine>>
    ELSE <<KvLine(s), EtotLine>>

\* The record keys a frame of the protocol carries.
FrameKeys(prot) ==
    IF prot = "MINIMISATION" THEN {"NSTEP", "ENERGY", "BOND"}
    ELSE {"NSTEP", "TIME(PS)", "ETOT"}

\* The lines that carry a frame's step count, and the step counts of the
\* frames the file holds, in file order.
IsFrameLine(line) ==
    /\ ~line.bar
    /\ IF line.eq THEN line.recs[1][1] = "NSTEP" ELSE line.toks[1] # "NSTEP"
StepOfLine(line) == IF line.eq THEN line.recs[1][2] ELSE line.toks[1]
FileSteps(f) ==
    LET fl == SelectSeq(f, IsFrameLine)
    IN [i \in 1..Len(fl) |-> StepOfLine(fl[i])]

\* Lines the file may hold: MaxFrames frames.
MaxLines(prot) == MaxFrames * Len(FrameLines(prot, "1"))

\* ----------------------------------------------------------- record store
\* process.MultiDict(): the empty store.
EmptyDict == << >>

\* MultiDict.__setitem__: append the value to the list kept for the key.
SetItem(d, k, v) ==
    IF k \in DOMAIN d THEN [d EXCEPT ![k] = Append(@, v)] ELSE d @@ (k :> <<v>>)

\* AppendRecords with the duplicate step count skipped instead of ending the
\* routine: the other records of the frame are still appended.
RECURSIVE AppendRecordsSkip(_, _, _)
AppendRecordsSkip(d, recs, i) ==
    IF i > Len(recs) THEN [dict |-> d, returned |-> FALSE, raised |-> FALSE]
    ELSE LET key == recs[i][1]
             value == recs[i][2]
         IN IF key = "NSTEP" /\ "NSTEP" \in DOMAIN d /\ value = Last(d["NSTEP"])
            THEN AppendRecordsSkip(d, recs, i + 1)
            ELSE AppendRecordsSkip(SetItem(d, key, value), recs, i + 1)

\* The loop over the (key, value) records of one line (amber.py 766-778).
\* Result: the store and whether the routine returned from inside the loop.
RECURSIVE AppendRecords(_, _, _)
AppendRecords(d, recs, i) ==
    IF i > Len(recs) THEN [dict |-> d, returned |-> FALSE, raised |-> FALSE]
    ELSE LET key == recs[i][1]
             value == recs[i][2]
         IN IF key = "NSTEP"
            THEN IF "NSTEP" \in DOMAIN d /\ value = Last(d["NSTEP"])
                 THEN [dict |-> d, returned |-> TRUE, raised |-> FALSE]
                 ELSE AppendRecords(SetItem(d, key, value), recs, i + 1)
            ELSE AppendRecords(SetItem(d, key, value), recs, i + 1)

\* One iteration of the loop over the lines of the file (amber.py 722-778);
\* hdr is is_header.  Result: the store, the flag, whether the routine
\* returned in this iteration and whether it raised (IndexError on data[0]
\* or data[1] of a line with fewer tokens).
ReadLine(prot, line, d, hdr) ==
    IF line.bar
    THEN [dict |-> d, hdr |-> hdr, returned |-> FALSE, raised |-> FALSE]
    ELSE IF prot = "MINIMISATION" /\ ~line.eq
                /\ Len(line.toks) > 0 /\ line.toks[1] = "NSTEP"
    THEN [dict |-> d, hdr |-> TRUE, returned |-> FALSE, raised |-> FALSE]
    ELSE IF prot = "MINIMISATION" /\ hdr
    THEN LET data == line.toks IN
         IF Len(data) = 0
         THEN [dict |-> d, hdr |-> hdr, returned |-> FALSE, raised |-> TRUE]
         ELSE IF "NSTEP" \in DOMAIN d /\ data[1] = Last(d["NSTEP"])
         THEN [dict |-> d, hdr |-> hdr, returned |-> TRUE, raised |-> FALSE]
         ELSE IF Len(data) < 2
         THEN [dict |-> SetItem(d, "NSTEP", data[1]), hdr |-> hdr,
               returned |-> FALSE, raised |-> TRUE]
         ELSE LET d2 == SetItem(SetItem(d, "NSTEP", data[1]), "ENERGY", data[2])
                  r == AppendRecords(d2, line.recs, 1)
              IN [dict |-> r.dict, hdr |-> FALSE,
                  returned |-> r.returned, raised |-> FALSE]
    ELSE LET r == AppendRecords(d, line.recs, 1)
         IN [dict |-> r.dict, hdr |-> hdr,
             returned |-> r.returned, raised |-> FALSE]

\* The loop over the lines of the file, from line i to the end of the file
\* or to the iteration that returns or raises.
RECURSIVE ReadLines(_, _, _, _, _)
ReadLines(prot, f, i, d, hdr) ==
    IF i > Len(f) THEN [dict |-> d, returned |-> FALSE, raised |-> FALSE]
    ELSE LET r == ReadLine(prot, f[i], d, hdr)
         IN IF r.returned \/ r.raised
            THEN [dict |-> r.dict, returned |-> r.returned, raised |-> r.raised]
            ELSE ReadLines(prot, f, i + 1, r.dict, r.hdr)

\* Amber._update_energy_dict: read the whole file from its first line.
UpdateEnergyDict(prot, f, d) == ReadLines(prot, f, 1, d, FALSE)


\* ------------------------------------------------------------ record query
\* What the query surface returns: None, one number or a list of numbers,
\* each with the Python type of the number(s).
NoneValue == [tag |-> "None", vals |-> <<>>]

\* str.strip() on the record names the callers pass.
Strip(r) == CASE r = " nstep " -> "nstep" [] OTHER -> r

\* str.upper() on the record names the callers pass.
Upper(r) ==
    CASE r = "nstep" -> "NSTEP"
      [] r = "etot" -> "ETOT"
      [] r = "energy" -> "ENERGY"
      [] OTHER -> r

\* [int(x) for x in xs] and [float(x) for x in xs]: the numbers denoted.
ParseAll(xs) == [i \in 1..Len(xs) |-> ParseNumber(xs[i])]

\* `key is 'NSTEP'`: an identity test.  It holds when the key is the string
\* NSTEP and the build makes the key and the literal one object (same).
KeyIsNSTEP(key, same) == key = "NSTEP" /\ same

\* GetStdoutRecord without the two KeyError handlers: the lookup of a key
\* the store does not hold raises.
GetStdoutRecordNoExcept(d, key, same, ts) ==
    IF DOMAIN d = {} THEN NoneValue
    ELSE IF key \notin DOMAIN d THEN [tag |-> "KeyError", vals |-> <<>>]
    ELSE LET time_series == IF ts \notin {"True", "False"} THEN "False" ELSE ts
             single == time_series # "True"
             type == IF KeyIsNSTEP(key, same) THEN "int" ELSE "float"
         IN IF single
            THEN [tag |-> type, vals |-> <<ParseNumber(Last(d[key]))>>]
            ELSE [tag |-> IF type = "int" THEN "int_list" ELSE "float_list",
                  vals |-> ParseAll(d[key])]

\* Amber._get_stdout_record.  ts is the time_series argument: "True",
\* "False" or anything else for a value that is not a bool.
GetStdoutRecord(d, key, same, ts) ==
    IF DOMAIN d = {} THEN NoneValue
    ELSE LET time_series == IF ts \notin {"True", "False"} THEN "False" ELSE ts
         IN IF time_series = "True"
            THEN IF key \notin DOMAIN d THEN NoneValue
                 ELSE IF KeyIsNSTEP(key, same)
                      THEN [tag |-> "int_list", vals |-> ParseAll(d[key])]
                      ELSE [tag |-> "float_list", vals |-> ParseAll(d[key])]
            ELSE IF key \notin DOMAIN d THEN NoneValue
                 ELSE IF KeyIsNSTEP(key, same)
                      THEN [tag |-> "int", vals |-> <<ParseNumber(Last(d[key]))>>]
                      ELSE [tag |-> "float", vals |-> <<ParseNumber(Last(d[key]))>>]

\* The record names the owning thread asks getRecord for.
RecordNames == {"NSTEP", " nstep ", "etot", "TEMP(K)"}

\* The time_series arguments it passes: the two bools, and two values that
\* are not bools, the int 1 and None.
TimeSeriesFlags == {"True", "False", "1", "None"}

\* `type(time_series) is not bool`.
NotBool(ts) == ts \notin {"True", "False"}

\* The truth value of a time_series argument (`if time_series:`).
Truthy(ts) == ts \in {"True", "1"}

\* The getters that read one fixed key (amber.py 618-710), as
\* <<getter, key>>.
EnergyGetters ==
    { <<"getBondEnergy", "BOND">>, <<"getAngleEnergy", "ANGLE">>,
      <<"getDihedralEnergy", "DIHED">>, <<"getElectrostaticEnergy", "EELECT">>,
      <<"getElectrostaticEnergy14", "1-4 EEL">>,
      <<"getVanDerWaalsEnergy", "VDWAALS">>,
      <<"getHydrogenBondEnergy", "EHBOND">>,
      <<"getRestraintEnergy", "RESTRAINT">>,
      <<"getPotentialEnergy", "EPTOT">>, <<"getKineticEnergy", "EKTOT">>,
      <<"getNonBondedEnergy14", "1-4 NB">>,
      <<"getCentreOfMassKineticEnergy", "EKCMT">>, <<"getVirial", "VIRIAL">>,
      <<"getTemperature", "TEMP(K)">>, <<"getPressure", "PRESS">>,
      <<"getVolume", "VOLUME">>, <<"getDensity", "DENSITY">> }

\* The record of a query: the call, what it returned (ret, in units of
\* scale) or raised, whether it warned, and the keys of the store it read.
NoReply == [fn |-> "none", arg |-> "", ts |-> "False", ret |-> NoneValue,
            keys |-> {}, raised |-> "none", warned |-> FALSE, scale |-> "1"]

\* A query that returned from _get_stdout_record on the store d.
Returned(fn, arg, ts, d, ret, scale) ==
    [fn |-> fn, arg |-> arg, ts |-> ts, ret |-> ret, keys |-> DOMAIN d,
     raised |-> "none", warned |-> (DOMAIN d # {} /\ NotBool(ts)),
     scale |-> scale]

\* A query that ended in an exception.
Raised(fn, arg, ts, d, exception, warned) ==
    [fn |-> fn, arg |-> arg, ts |-> ts, ret |-> NoneValue, keys |-> DOMAIN d,
     raised |-> exception, warned |-> warned, scale |-> "1"]

\* --------------------------------------------------------------- the state
Observers == 1..MaxObservers

\* The threads that run the update routine: the owning thread (0) and the
\* observer threads.
Threads == {0} \cup Observers

\* A thread outside the update routine; inside it, the lines it read from
\* the file, the line it is at and its is_header flag.
NotReading == [pos |-> 0, hdr |-> FALSE, lines |-> <<>>]

\* No call outside the record surface has been made.
NoCall == [fn |-> "none"]
EventTypes == {"modified", "created"}

Init ==
    /\ protocol \in Protocols
    /\ nrg_file = <<>>
    /\ stdout_dict = EmptyDict
    /\ is_watching = FALSE
    /\ process = "none"
    /\ watcher = 0
    /\ observer = [o \in Observers |-> "unborn"]
    /\ queue = [o \in Observers |-> <<>>]
    /\ hpc = [o \in Observers |-> "idle"]
    /\ owner = "idle"
    /\ last_call = "none"
    /\ reply = NoReply
    /\ writes = 0
    /\ upd = [t \in Threads |-> NotReading]
    /\ call = NoCall

\* The store stays within the bound on values per key.
Fits(d) == \A k \in DOMAIN d : Len(d[k]) <= MaxRecords

\* The event queue of an observer skips an event equal to the last one queued.
Enqueue(q, e) == IF Len(q) > 0 /\ Last(q) = e THEN q ELSE Append(q, e)

\* A file-system event reaches the queue of every live observer.
Notify(e) ==
    /\ \A o \in Observers :
           observer[o] = "live" => Len(Enqueue(queue[o], e)) <= MaxPending
    /\ queue' = [o \in Observers |->
                    IF observer[o] = "live" THEN Enqueue(queue[o], e) ELSE queue[o]]

\* ------------------------------------------------------- the child process
\* The engine appends one complete frame to the energy info file; its step
\* count is not below the one of the frame before it.
ChildAppend(s) ==
    /\ process = "running"
    /\ LET st == FileSteps(nrg_file)
       IN Len(st) > 0 => ParseNumber(Last(st)) <= ParseNumber(s)
    /\ Len(nrg_file) + Len(FrameLines(protocol, s)) <= MaxLines(protocol)
    /\ nrg_file' = nrg_file \o FrameLines(protocol, s)
    /\ writes' = IF writes = 0 THEN 1 ELSE 2
    /\ Notify("modified")
    /\ UNCHANGED <<upd, call, protocol, stdout_dict, is_watching, process, watcher,
                   observer, hpc, owner, last_call, reply>>

\* The engine rewrites the energy info file with one complete frame.
ChildRewrite(s) ==
    /\ process = "running"
    /\ nrg_file' = FrameLines(protocol, s)
    /\ writes' = IF writes = 0 THEN 1 ELSE 2
    /\ Notify("modified")
    /\ UNCHANGED <<upd, call, protocol, stdout_dict, is_watching, process, watcher,
                   observer, hpc, owner, last_call, reply>>

\* Within one run the step count of a frame is above the step counts of the
\* frames written before it.
NewerStep(s) ==
    \A i \in 1..Len(FileSteps(nrg_file)) :
        ParseNumber(FileSteps(nrg_file)[i]) < ParseNumber(s)

\* The engine appends a summary banner line (the file holds at most one).
ChildBanner ==
    /\ process = "running"
    /\ Len(nrg_file) + 1 <= MaxLines(protocol)
    /\ \A i \in 1..Len(nrg_file) : ~nrg_file[i].bar
    /\ nrg_file' = Append(nrg_file, BannerLine)
    /\ writes' = 2
    /\ Notify("modified")
    /\ UNCHANGED <<upd, call, protocol, stdout_dict, is_watching, process, watcher,
                   observer, hpc, owner, last_call, reply>>

\* The first k tokens of a line: what the file holds of it when the engine's
\* output buffer was flushed inside the line.  A record of the line is in
\* view once its key, its '=' and its value are.
Truncate(line, k) ==
    [bar |-> line.bar /\ k > 0,
     eq |-> \E i \in 1..k : line.toks[i] = "=",
     toks |-> SubSeq(line.toks, 1, k),
     recs |-> IF line.eq THEN SubSeq(line.recs, 1, k \div 3) ELSE <<>>]

\* The places the writing of a frame F can have reached: <<n, k>> for n whole
\* lines, followed when k >= 0 by the first k tokens of line n + 1.
Pieces(F) ==
    {<<n, -1>> : n \in 0..Len(F)}
        \cup UNION {{<<n, k>> : k \in 0..Len(F[n + 1].toks) - 1} :
                       n \in 0..Len(F) - 1}

\* The places that end with a whole line.
LinePieces(F) == {p \in Pieces(F) : p[2] = -1}

\* The file when the writing of the frame F has reached place p.
Image(F, p) ==
    SubSeq(F, 1, p[1]) \o (IF p[2] < 0 THEN <<>> ELSE <<Truncate(F[p[1] + 1], p[2])>>)

\* Place p comes before place q.
Before(p, q) == p[1] < q[1] \/ (p[1] = q[1] /\ p[2] < q[2])

\* The file holds one complete frame.
FileComplete == \E s \in Steps : nrg_file = FrameLines(protocol, s)

\* The engine rewrites the file frame by frame, and the file shows each
\* frame as it is being written: a flush takes the frame with step count s
\* to a later place, among the places P; a frame that is complete is
\* followed by a newer one, written over it.
WritePiece(s, P) ==
    /\ process = "running"
    /\ LET F == FrameLines(protocol, s)
       IN \E q \in P :
              /\ \/ FileComplete /\ NewerStep(s)
                 \/ \E p \in Pieces(F) : nrg_file = Image(F, p) /\ Before(p, q)
              /\ nrg_file' = Image(F, q)
    /\ writes' = IF writes = 0 THEN 1 ELSE 2
    /\ Notify("modified")
    /\ UNCHANGED <<upd, call, protocol, stdout_dict, is_watching, process,
                   watcher, observer, hpc, owner, last_call, reply>>

\* A flush that ends with a whole line.
ChildWriteLines(s) == WritePiece(s, LinePieces(FrameLines(protocol, s)))

\* A flush that ends anywhere.
ChildWritePiece(s) == WritePiece(s, Pieces(FrameLines(protocol, s)))

\* Another event of the working directory (a file is created).
OtherEvent ==
    /\ process = "running"
    /\ Notify("created")
    /\ UNCHANGED <<upd, call, protocol, nrg_file, stdout_dict, is_watching, process,
                   watcher, observer, hpc, owner, last_call, reply, writes>>

\* The child process ends by itself.
ChildExit ==
    /\ process = "running"
    /\ process' = "exited"
    /\ UNCHANGED <<upd, call, protocol, nrg_file, stdout_dict, is_watching, watcher,
                   observer, queue, hpc, owner, last_call, reply, writes>>

\* ---------------------------------------------------- the observer threads
\* Handler.on_any_event, entry: take the event, test its type and the flag.
HandlerCheck(o) ==
    /\ observer[o] = "live"
    /\ hpc[o] = "idle"
    /\ queue[o] # <<>>
    /\ queue' = [queue EXCEPT ![o] = Tail(@)]
    /\ hpc' = [hpc EXCEPT ![o] =
                  IF Head(queue[o]) = "modified"
                  THEN IF ~is_watching THEN "wipe" ELSE "update"
                  ELSE "idle"]
    /\ UNCHANGED <<upd, call, protocol, nrg_file, stdout_dict, is_watching, process,
                   watcher, observer, owner, last_call, reply, writes>>

\* Handler.on_any_event, first modification: wipe the store, set the flag.
HandlerWipe(o) ==
    /\ hpc[o] = "wipe"
    /\ stdout_dict' = EmptyDict
    /\ is_watching' = TRUE
    /\ writes' = 2
    /\ hpc' = [hpc EXCEPT ![o] = "update"]
    /\ UNCHANGED <<upd, call, protocol, nrg_file, process, watcher, observer, queue,
                   owner, last_call, reply>>

\* Handler.on_any_event, last statement: self._process._update_energy_dict().
\* An exception of the routine is caught nowhere on the observer thread: it
\* ends the thread.
HandlerUpdate(o) ==
    /\ hpc[o] = "update"
    /\ LET r == UpdateEnergyDict(protocol, nrg_file, stdout_dict)
       IN /\ Fits(r.dict)
          /\ stdout_dict' = r.dict
          /\ observer' = IF r.raised THEN [observer EXCEPT ![o] = "crashed"]
                         ELSE observer
    /\ writes' = 0
    /\ hpc' = [hpc EXCEPT ![o] = "idle"]
    /\ UNCHANGED <<upd, call, protocol, nrg_file, is_watching, process,
                   watcher, queue, owner, last_call, reply>>

\* One iteration of the loop of the update routine on thread t, which opens
\* the file and reads its lines before the first one.  Result: the store,
\* whether the routine is over, whether it raised, and the place of the
\* thread after the iteration.
StepUpdate(t) ==
    LET u == IF upd[t].pos = 0
             THEN [pos |-> 1, hdr |-> FALSE, lines |-> nrg_file]
             ELSE upd[t]
    IN IF u.pos > Len(u.lines)
       THEN [dict |-> stdout_dict, done |-> TRUE, raised |-> FALSE,
             next |-> NotReading]
       ELSE LET r == ReadLine(protocol, u.lines[u.pos], stdout_dict, u.hdr)
                done == r.returned \/ r.raised \/ u.pos = Len(u.lines)
            IN [dict |-> r.dict, done |-> done, raised |-> r.raised,
                next |-> IF done THEN NotReading
                         ELSE [u EXCEPT !.pos = @ + 1, !.hdr = r.hdr]]

\* Handler.on_any_event, last statement, one line of the file at a time: the
\* interpreter may switch threads between two iterations of the loop.
HandlerUpdateLine(o) ==
    /\ hpc[o] = "update"
    /\ LET st == StepUpdate(o)
       IN /\ Fits(st.dict)
          /\ stdout_dict' = st.dict
          /\ upd' = [upd EXCEPT ![o] = st.next]
          /\ hpc' = IF st.done THEN [hpc EXCEPT ![o] = "idle"] ELSE hpc
          /\ observer' = IF st.raised THEN [observer EXCEPT ![o] = "crashed"]
                         ELSE observer
          /\ writes' = IF st.done THEN 0 ELSE writes
    /\ UNCHANGED <<call, protocol, nrg_file, is_watching, process, watcher,
                   queue, owner, last_call, reply>>

\* ------------------------------------------------------ the owning thread
\* Start without the test of isRunning(): the body of start() whatever the
\* child does.
StartAnyway ==
    /\ owner = "idle"
    /\ \E o \in Observers :
           /\ observer[o] = "unborn"
           /\ \A p \in Observers : p < o => observer[p] # "unborn"
           /\ watcher' = o
           /\ observer' = [observer EXCEPT ![o] = "live"]
    /\ is_watching' = FALSE
    /\ process' = "running"
    /\ last_call' = "start"
    /\ UNCHANGED <<upd, call, protocol, nrg_file, stdout_dict, queue, hpc, owner,
                   reply, writes>>

\* Amber.start.
Start ==
    /\ owner = "idle"
    /\ IF process = "running"
       THEN UNCHANGED vars
       ELSE /\ \E o \in Observers :
                  /\ observer[o] = "unborn"
                  /\ \A p \in Observers : p < o => observer[p] # "unborn"
                  /\ watcher' = o
                  /\ observer' = [observer EXCEPT ![o] = "live"]
            /\ is_watching' = FALSE
            /\ process' = "running"
            /\ last_call' = "start"
            /\ UNCHANGED <<upd, call, protocol, nrg_file, stdout_dict, queue, hpc, owner,
                           reply, writes>>

\* Amber.kill: stop and join the observer of self._watcher, kill the child.
\* join() returns once the observer thread has left its handler; the events
\* still queued for it are never dispatched.
Kill ==
    /\ owner = "idle"
    /\ process # "none"
    /\ hpc[watcher] = "idle"
    /\ observer' = [observer EXCEPT ![watcher] = "stopped"]
    /\ queue' = [queue EXCEPT ![watcher] = <<>>]
    /\ process' = "exited"
    /\ last_call' = "kill"
    /\ UNCHANGED <<upd, call, protocol, nrg_file, stdout_dict, is_watching, watcher, hpc,
                   owner, reply, writes>>

\* Amber.wait, entry: the owning thread starts polling isRunning().
WaitCall ==
    /\ owner = "idle"
    /\ process # "none"
    /\ owner' = "wait"
    /\ UNCHANGED <<upd, call, protocol, nrg_file, stdout_dict, is_watching, process,
                   watcher, observer, queue, hpc, last_call, reply, writes>>

\* WaitReturn without the isRunning() loop: wait() goes on to stop the
\* observer whatever the child does.
WaitReturnNoPoll ==
    /\ owner = "wait"
    /\ hpc[watcher] = "idle"
    /\ observer' = [observer EXCEPT ![watcher] = "stopped"]
    /\ queue' = [queue EXCEPT ![watcher] = <<>>]
    /\ owner' = "idle"
    /\ last_call' = "wait"
    /\ UNCHANGED <<upd, call, protocol, nrg_file, stdout_dict, is_watching, process,
                   watcher, hpc, reply, writes>>

\* Amber.wait, exit: the child is not running; stop and join the observer.
WaitReturn ==
    /\ owner = "wait"
    /\ process = "exited"
    /\ hpc[watcher] = "idle"
    /\ observer' = [observer EXCEPT ![watcher] = "stopped"]
    /\ queue' = [queue EXCEPT ![watcher] = <<>>]
    /\ owner' = "idle"
    /\ last_call' = "wait"
    /\ UNCHANGED <<upd, call, protocol, nrg_file, stdout_dict, is_watching, process,
                   watcher, hpc, reply, writes>>

\* The body shared by the record getters: update, then read the store.  An
\* exception of the update routine leaves the getter with what the routine
\* had appended.
Query(fn, arg, key, same, ts) ==
    /\ owner = "idle"
    /\ LET r == UpdateEnergyDict(protocol, nrg_file, stdout_dict)
       IN /\ Fits(r.dict)
          /\ stdout_dict' = r.dict
          /\ reply' = IF r.raised
                      THEN Raised(fn, arg, ts, r.dict, "IndexError", FALSE)
                      ELSE Returned(fn, arg, ts, r.dict,
                                    GetStdoutRecord(r.dict, key, same, ts), "1")
    /\ writes' = 0
    /\ UNCHANGED <<upd, call, protocol, nrg_file, is_watching, process, watcher, observer,
                   queue, hpc, owner, last_call>>

\* Amber.getRecord: the key is record.strip().upper(), a string built at run
\* time; whether it is the same object as the literal 'NSTEP' is up to the
\* interpreter.
GetRecord(record, ts) ==
    \E same \in BOOLEAN :
        Query("getRecord", record, Upper(Strip(record)), same, ts)

\* Amber.getStep: the key is the literal 'NSTEP' itself.
GetStep(ts) == Query("getStep", "NSTEP", "NSTEP", TRUE, ts)

\* Amber.getStep() with the update routine run one line of the file at a
\* time; the owning thread is in "query" between two iterations.
GetStepLine ==
    /\ owner \in {"idle", "query"}
    /\ LET st == StepUpdate(0)
       IN /\ Fits(st.dict)
          /\ stdout_dict' = st.dict
          /\ upd' = [upd EXCEPT ![0] = st.next]
          /\ owner' = IF st.done THEN "idle" ELSE "query"
          /\ writes' = IF st.done THEN 0 ELSE writes
          /\ reply' =
               IF ~st.done THEN reply
               ELSE IF st.raised
               THEN Raised("getStep", "NSTEP", "False", st.dict,
                           "IndexError", FALSE)
               ELSE Returned("getStep", "NSTEP", "False", st.dict,
                             GetStdoutRecord(st.dict, "NSTEP", TRUE, "False"),
                             "1")
    /\ UNCHANGED <<call, protocol, nrg_file, is_watching, process, watcher,
                   observer, queue, hpc, last_call>>

\* Amber.getRecords: return self._stdout_dict as it is.
GetRecords ==
    /\ owner = "idle"
    /\ reply' = Returned("getRecords", "", "False", stdout_dict,
                         [tag |-> "dict", vals |-> <<stdout_dict>>], "1")
    /\ UNCHANGED <<upd, call, protocol, nrg_file, stdout_dict, is_watching, process,
                   watcher, observer, queue, hpc, owner, last_call, writes>>

\* The getters of one fixed key.
GetEnergy(g, ts) == Query(g[1], g[2], g[2], TRUE, ts)

\* Amber.getTotalEnergy: the key depends on the protocol.
GetTotalEnergy(ts) ==
    LET key == IF protocol = "MINIMISATION" THEN "ENERGY" ELSE "ETOT"
    IN Query("getTotalEnergy", key, key, TRUE, ts)

\* Amber.getTime: None for a minimisation, without an update.  Otherwise
\* the TIME(PS) record times 1e-3; the conversion tests the time_series
\* argument as passed, and iterates over the record when it is true.
GetTime(ts) ==
    /\ owner = "idle"
    /\ IF protocol = "MINIMISATION"
       THEN /\ reply' = [Returned("getTime", "TIME(PS)", ts, stdout_dict,
                                  NoneValue, "1e-3") EXCEPT !.warned = FALSE]
            /\ UNCHANGED <<stdout_dict, writes>>
       ELSE LET r == UpdateEnergyDict(protocol, nrg_file, stdout_dict)
                time_steps == GetStdoutRecord(r.dict, "TIME(PS)", TRUE, ts)
                warned == DOMAIN r.dict # {} /\ NotBool(ts)
            IN /\ Fits(r.dict)
               /\ stdout_dict' = r.dict
               /\ writes' = 0
               /\ reply' =
                    IF r.raised
                    THEN Raised("getTime", "TIME(PS)", ts, r.dict,
                                "IndexError", FALSE)
                    ELSE IF time_steps = NoneValue
                    THEN Returned("getTime", "TIME(PS)", ts, r.dict,
                                  NoneValue, "1e-3")
                    ELSE IF Truthy(ts) /\ time_steps.tag # "float_list"
                    THEN Raised("getTime", "TIME(PS)", ts, r.dict,
                                "TypeError", warned)
                    ELSE Returned("getTime", "TIME(PS)", ts, r.dict,
                                  time_steps, "1e-3")
    /\ UNCHANGED <<upd, call, protocol, nrg_file, is_watching, process,
                   watcher, observer, queue, hpc, owner, last_call>>

\* The state of the handle but for the call made outside its record surface.
handle == <<protocol, nrg_file, stdout_dict, is_watching, process, watcher,
            observer, queue, hpc, owner, last_call, reply, writes, upd>>

\* ---------------------------------------------------------- construction
\* The arguments and the surroundings of Amber.__init__: the exe argument
\* (None, an existing file, a path that names no file), AMBERHOME (not set,
\* set with bin/sander under it, set without), whether sander is on PATH,
\* whether the protocol is a custom configuration file and whether that
\* file exists.
ExeArguments == {"None", "file", "missing"}
AmberHomes == {"unset", "sander", "empty"}

\* The executable search of amber.py 146-162.  Result: what self._exe is
\* bound to ("unset" when no statement binds it) and the exception raised.
\* findExe raises when the lookup on PATH fails.
ResolveExe(exe, amber_home, on_path) ==
    IF exe = "None"
    THEN IF amber_home # "unset"
         THEN IF amber_home = "sander"
              THEN [exe |-> "AMBERHOME/bin/sander", raised |-> "none"]
              ELSE [exe |-> "unset", raised |-> "none"]
         ELSE IF on_path THEN [exe |-> "PATH/sander", raised |-> "none"]
              ELSE [exe |-> "unset", raised |-> "findExe"]
    ELSE IF exe = "file" THEN [exe |-> "protocol", raised |-> "none"]
         ELSE [exe |-> "unset", raised |-> "IOError"]

\* The configuration file check of amber.py 183-193.  The message of the
\* IOError names config_file, which is not defined: NameError is raised.
CheckConfig(is_custom, config_exists) ==
    IF is_custom /\ ~config_exists THEN "NameError" ELSE "none"

\* Amber.__init__ on a working directory whose energy info file may hold
\* the frames of an earlier handle: the executable search, then the store,
\* the truncation of the file and the watcher fields, then the check of the
\* configuration file.
Construct(exe, amber_home, on_path, is_custom, config_exists) ==
    /\ call = NoCall
    /\ LET found == ResolveExe(exe, amber_home, on_path)
           config == CheckConfig(is_custom, config_exists)
       IN /\ nrg_file' = IF found.raised = "none" THEN <<>> ELSE nrg_file
          /\ call' = [fn |-> "__init__", exe |-> exe,
                      amber_home |-> amber_home, on_path |-> on_path,
                      is_custom |-> is_custom, config_exists |-> config_exists,
                      before |-> nrg_file, exe_attr |-> found.exe,
                      raised |-> IF found.raised # "none" THEN found.raised
                                 ELSE config]
          /\ IF found.raised = "none"
             THEN /\ stdout_dict' = EmptyDict
                  /\ is_watching' = FALSE
                  /\ watcher' = 0
             ELSE UNCHANGED <<stdout_dict, is_watching, watcher>>
    /\ UNCHANGED <<upd, protocol, process, observer, queue, hpc, owner,
                   last_call, reply, writes>>

\* The working directory before construction: the energy info file is
\* empty or holds a frame.
InitDisk ==
    /\ protocol \in Protocols
    /\ nrg_file \in {<<>>, FrameLines(protocol, "1")}
    /\ stdout_dict = EmptyDict
    /\ is_watching = FALSE
    /\ process = "none"
    /\ watcher = 0
    /\ observer = [o \in Observers |-> "unborn"]
    /\ queue = [o \in Observers |-> <<>>]
    /\ hpc = [o \in Observers |-> "idle"]
    /\ owner = "idle"
    /\ last_call = "none"
    /\ reply = NoReply
    /\ writes = 0
    /\ upd = [t \in Threads |-> NotReading]
    /\ call = NoCall

\* ------------------------------------------------------------ trajectory
\* abs(x).
Abs(x) == IF x < 0 THEN -x ELSE x

\* The loop of getFrames over the indices (amber.py 538-561), from index i
\* on: n is traj.n_frames, frames the frames loaded so far (traj[x] counts a
\* negative x from the end).  The message of the ValueError of line 542 is
\* built by calling a name that is not defined, which raises NameError; the
\* file removed after the loop is named inside the loop.
RECURSIVE LoadFrames(_, _, _, _)
LoadFrames(n, xs, i, frames) ==
    IF i > Len(xs)
    THEN IF Len(xs) = 0
         THEN [tag |-> "UnboundLocalError", frames |-> frames]
         ELSE [tag |-> "frames", frames |-> frames]
    ELSE IF Abs(xs[i]) > n - 1
    THEN [tag |-> "NameError", frames |-> frames]
    ELSE LoadFrames(n, xs, i + 1,
                    Append(frames, IF xs[i] >= 0 THEN xs[i] ELSE n + xs[i]))

\* Amber.getFrames: n is 0 when the working directory holds no trajectory
\* file; indices is None, an int, a list of ints, or something else.
GetFrames(n, indices) ==
    IF n = 0 THEN [tag |-> "None", frames |-> <<>>]
    ELSE IF indices.kind = "None"
    THEN LoadFrames(n, [i \in 1..n |-> i - 1], 1, <<>>)
    ELSE IF indices.kind \in {"int", "list"}
    THEN LoadFrames(n, indices.xs, 1, <<>>)
    ELSE [tag |-> "ValueError", frames |-> <<>>]

\* The frame indices the callers pass, and the `indices` arguments.
FrameIndices == -(MaxTraj + 1)..(MaxTraj + 1)
IndexArguments ==
    {[kind |-> "None", xs |-> <<>>], [kind |-> "other", xs |-> <<>>],
     [kind |-> "list", xs |-> <<>>]}
        \cup {[kind |-> "int", xs |-> <<x>>] : x \in FrameIndices}
        \cup {[kind |-> "list", xs |-> <<x, y>>] : x, y \in FrameIndices}

\* A call of getFrames on a handle whose trajectory holds n frames.
GetFramesCall(n, indices) ==
    /\ call = NoCall
    /\ call' = [fn |-> "getFrames", n |-> n, indices |-> indices,
                ret |-> GetFrames(n, indices)]
    /\ UNCHANGED handle

\* ------------------------------------------------------------- alignment
\* Align/__init__.py.  A candidate mapping is known by its name; the list
\* that findMCSmatches returns holds distinct mappings.  Sequences are
\* indexed from 1 where the Python lists are indexed from 0.
MappingNames == <<"m1", "m2", "m3", "m4", "m5">>
Candidates(n) == SubSeq(MappingNames, 1, n)

\* The scores getRMSD computes for the candidates, in the order of the list.
ScoreLists == UNION {[1..n -> 0..MaxScore] : n \in 0..MaxMappings}

\* InsertKey placing the index before the indices of equal score.
InsertKeyBefore(keys, x, scores) ==
    LET n == Cardinality({i \in 1..Len(keys) : scores[keys[i]] < scores[x]})
    IN SubSeq(keys, 1, n) \o <<x>> \o SubSeq(keys, n + 1, Len(keys))

\* sorted(..., key=...) taking one more index: it goes after the indices
\* whose score is not above its own (the sort is stable).
InsertKey(keys, x, scores) ==
    LET n == Cardinality({i \in 1..Len(keys) : scores[keys[i]] <= scores[x]})
    IN SubSeq(keys, 1, n) \o <<x>> \o SubSeq(keys, n + 1, Len(keys))

\* keys = sorted(range(len(scores)), key=lambda k: scores[k]), over the
\* first n indices.
RECURSIVE SortedKeys(_, _)
SortedKeys(scores, n) ==
    IF n = 0 THEN <<>> ELSE InsertKey(SortedKeys(scores, n - 1), n, scores)

\* scores[x] * _Units.Length.angstrom: a length.
Angstrom(x) == [value |-> x, unit |-> "angstrom"]

\* _score_rmsd, from its sort on: the mappings and their scores in the order
\* of the sorted keys.
ScoreRmsd(mappings, scores) ==
    LET keys == SortedKeys(scores, Len(scores))
    IN [mappings |-> [i \in 1..Len(keys) |-> mappings[keys[i]]],
        scores |-> [i \in 1..Len(keys) |-> Angstrom(scores[keys[i]])]]

\* A call of _score_rmsd on a non-empty list of candidates.  The functions
\* of the module keep nothing from one call to the next: a behaviour holds
\* one call.
ScoreRmsdCall(scores) ==
    /\ call = NoCall
    /\ Len(scores) > 0
    /\ call' = [fn |-> "_score_rmsd", mappings |-> Candidates(Len(scores)),
                scores |-> scores,
                ret |-> ScoreRmsd(Candidates(Len(scores)), scores)]
    /\ UNCHANGED handle

\* xs[0:k] for k >= 0.
Slice(xs, k) == SubSeq(xs, 1, IF k < Len(xs) THEN k ELSE Len(xs))

\* What matchAtoms returns: None, one mapping, a list of mappings, or a
\* tuple of the list of mappings and the list of their scores; or the
\* exception it raises.
NoMapping == [tag |-> "None", mappings |-> <<>>, scores |-> <<>>]

\* MatchAtoms without the branch for matches == 1: one match is returned as
\* the others are, in a list.
MatchAtomsAlwaysList(mappings, scores, matches, return_scores) ==
    IF matches < 0
    THEN [tag |-> "ValueError", mappings |-> <<>>, scores |-> <<>>]
    ELSE IF Len(mappings) = 0 THEN NoMapping
    ELSE LET sr == ScoreRmsd(mappings, scores)
         IN IF return_scores
            THEN [tag |-> "tuple", mappings |-> Slice(sr.mappings, matches),
                  scores |-> Slice(sr.scores, matches)]
            ELSE [tag |-> "list", mappings |-> Slice(sr.mappings, matches),
                  scores |-> <<>>]

\* matchAtoms, from the check of `matches` on; mappings is what
\* findMCSmatches found and scores what getRMSD gives for each.
MatchAtoms(mappings, scores, matches, return_scores) ==
    IF matches < 0
    THEN [tag |-> "ValueError", mappings |-> <<>>, scores |-> <<>>]
    ELSE IF Len(mappings) = 0 THEN NoMapping
    ELSE LET sr == ScoreRmsd(mappings, scores)
         IN IF matches = 1
            THEN [tag |-> "mapping", mappings |-> <<sr.mappings[1]>>,
                  scores |-> <<>>]
            ELSE IF return_scores
            THEN [tag |-> "tuple", mappings |-> Slice(sr.mappings, matches),
                  scores |-> Slice(sr.scores, matches)]
            ELSE [tag |-> "list", mappings |-> Slice(sr.mappings, matches),
                  scores |-> <<>>]

\* The values of `matches` the callers pass.
MatchCounts == -1..MaxMappings + 1

\* A call of matchAtoms.
MatchAtomsCall(scores, matches, return_scores) ==
    /\ call = NoCall
    /\ call' = [fn |-> "matchAtoms", mappings |-> Candidates(Len(scores)),
                scores |-> scores, matches |-> matches,
                return_scores |-> return_scores,
                ret |-> MatchAtoms(Candidates(Len(scores)), scores, matches,
                                   return_scores)]
    /\ UNCHANGED handle

\* A molecule: its name and the mapping it was last aligned with.
Molecule(name) == [name |-> name, aligned |-> "None"]
Aligned(mol, mapping) == [mol EXCEPT !.aligned = mapping]

\* The `mapping` arguments the callers pass: None, a dict of atom indices,
\* and a value that is no such dict.
GivenMappings == {"None", "user", "bad"}

\* The mapping matchAtoms(molecule0, molecule1) gives, matches being 1 by
\* default: the best mapping, or None.
BestMapping(mappings, scores) ==
    LET r == MatchAtoms(mappings, scores, 1, FALSE)
    IN IF r.tag = "mapping" THEN r.mappings[1] ELSE "None"

\* rmsdAlign: a mapping that is None is replaced by the one matchAtoms gives;
\* molecule0 is aligned by the library with the matcher built from the
\* mapping.  Whether the library builds a matcher from None (accepts) is not
\* decided by this code.
RmsdAlign(molecule0, mapping, mappings, scores, accepts) ==
    IF mapping = "bad" THEN [tag |-> "TypeError", mol |-> molecule0]
    ELSE LET m == IF mapping # "None" THEN mapping
                  ELSE BestMapping(mappings, scores)
         IN IF m = "None" /\ ~accepts
            THEN [tag |-> "raised", mol |-> molecule0]
            ELSE [tag |-> "molecule", mol |-> Aligned(molecule0, m)]

\* What rmsdAlign hands to _SireMol.AtomResultMatcher for a mapping that
\* passed the type check: the mapping given, or what matchAtoms returned
\* for a mapping that is None.
MatcherArgument(mapping, mappings, scores) ==
    IF mapping # "None" THEN mapping ELSE BestMapping(mappings, scores)

\* A call of rmsdAlign: the arguments, the mapping the library's matcher was
\* built from (unbuilt when the type check raised) and the outcome.
RmsdAlignCall(given, scores, accepts) ==
    /\ call = NoCall
    /\ LET mappings == Candidates(Len(scores))
           r == RmsdAlign(Molecule("A"), given, mappings, scores, accepts)
       IN call' = [fn |-> "rmsdAlign", given |-> given, mappings |-> mappings,
                   scores |-> scores,
                   matcher |-> IF r.tag = "TypeError" THEN "unbuilt"
                               ELSE MatcherArgument(given, mappings, scores),
                   ret |-> r]
    /\ UNCHANGED handle

\* The calls merge has made so far: the function, the molecule0 and the
\* mapping it was given (for matchAtoms: the mapping it returned).
Called(op, molecule0, mapping) ==
    [op |-> op, mol0 |-> molecule0, mapping |-> mapping]

\* merge, entry: the checks of the arguments; a mapping that is not a dict
\* of atom indices raises TypeError.
MergeCall(given, scores) ==
    /\ call = NoCall
    /\ call' = [fn |-> "merge", given |-> given,
                mappings |-> Candidates(Len(scores)), scores |-> scores,
                pc |-> IF given = "bad" THEN "raised" ELSE "entered",
                mapping |-> given, molecule0 |-> Molecule("A"),
                trace |-> <<>>]
    /\ UNCHANGED handle

\* merge, no mapping given: mapping = matchAtoms(molecule0, molecule1).
MergeMatch ==
    /\ call.fn = "merge"
    /\ call.pc = "entered"
    /\ call.given = "None"
    /\ LET m == BestMapping(call.mappings, call.scores)
       IN call' = [call EXCEPT
                     !.mapping = m,
                     !.trace = Append(@, Called("matchAtoms", call.molecule0, m)),
                     !.pc = "matched"]
    /\ UNCHANGED handle

\* merge, no mapping given: molecule0 = rmsdAlign(molecule0, molecule1,
\* mapping).
MergeAlign(accepts) ==
    /\ call.fn = "merge"
    /\ call.pc = "matched"
    /\ LET r == RmsdAlign(call.molecule0, call.mapping, call.mappings,
                          call.scores, accepts)
       IN call' = [call EXCEPT
                     !.molecule0 = r.mol,
                     !.trace = Append(@, Called("rmsdAlign", call.molecule0,
                                                call.mapping)),
                     !.pc = IF r.tag = "molecule" THEN "aligned" ELSE "raised"]
    /\ UNCHANGED handle

\* MergeConstruct taken as soon as the mapping is known, aligned or not.
MergeConstructEarly ==
    /\ call.fn = "merge"
    /\ \/ call.pc \in {"matched", "aligned"}
       \/ call.pc = "entered" /\ call.given # "None"
    /\ call' = [call EXCEPT
                  !.trace = Append(@, Called("_MergedMolecule", call.molecule0,
                                             call.mapping)),
                  !.pc = "done"]
    /\ UNCHANGED handle

\* merge, last statement: _MergedMolecule(molecule0, molecule1, mapping).
MergeConstruct ==
    /\ call.fn = "merge"
    /\ \/ call.pc = "aligned"
       \/ call.pc = "entered" /\ call.given # "None"
    /\ call' = [call EXCEPT
                  !.trace = Append(@, Called("_MergedMolecule", call.molecule0,
                                             call.mapping)),
                  !.pc = "done"]
    /\ UNCHANGED handle

\* ------------------------------------------------------- specifications
\* The handle through its life: start, the child, the observers, kill, wait.
Next ==
    \/ \E s \in Steps : ChildRewrite(s)
    \/ OtherEvent
    \/ ChildExit
    \/ \E o \in Observers : HandlerCheck(o)
    \/ \E o \in Observers : HandlerWipe(o)
    \/ \E o \in Observers : HandlerUpdate(o)
    \/ Start
    \/ Kill
    \/ WaitCall
    \/ WaitReturn

Spec == Init /\ [][Next]_vars

\* The record store of one run: the engine writes the file, the observer
\* callback and the step queries of the owning thread update the store.
NextStore ==
    \/ \E s \in Steps : ChildAppend(s)
    \/ \E s \in Steps : ChildRewrite(s)
    \/ ChildBanner
    \/ \E o \in Observers : HandlerCheck(o)
    \/ \E o \in Observers : HandlerWipe(o)
    \/ \E o \in Observers : HandlerUpdate(o)
    \/ Start
    \/ GetStep("False")

SpecStore == Init /\ [][NextStore]_vars

\* The query surface: the engine rewrites the file with the latest frame of
\* one run and the owning thread asks for records by every accessor.
NextQuery ==
    \/ \E s \in Steps : NewerStep(s) /\ ChildRewrite(s)
    \/ Start
    \/ \E r \in RecordNames, ts \in TimeSeriesFlags : GetRecord(r, ts)
    \/ \E ts \in TimeSeriesFlags : GetStep(ts)
    \/ \E g \in EnergyGetters, ts \in TimeSeriesFlags : GetEnergy(g, ts)
    \/ \E ts \in TimeSeriesFlags : GetTotalEnergy(ts)
    \/ \E ts \in TimeSeriesFlags : GetTime(ts)

SpecQuery == Init /\ [][NextQuery]_vars

\* A file read while it is being written, line by line: the observer
\* callback and the step queries update the store from what the file shows.
NextLines ==
    \/ \E s \in Steps : ChildWriteLines(s)
    \/ \E o \in Observers : HandlerCheck(o)
    \/ \E o \in Observers : HandlerWipe(o)
    \/ \E o \in Observers : HandlerUpdate(o)
    \/ Start
    \/ GetStep("False")

SpecLines == Init /\ [][NextLines]_vars

\* The same with flushes that end inside a line.
NextPartial ==
    \/ \E s \in Steps : ChildWritePiece(s)
    \/ \E o \in Observers : HandlerCheck(o)
    \/ \E o \in Observers : HandlerWipe(o)
    \/ \E o \in Observers : HandlerUpdate(o)
    \/ Start
    \/ GetStep("False")

SpecPartial == Init /\ [][NextPartial]_vars

\* The two threads in the update routine at once: the observer callback and
\* the step query of the owning thread, each one line at a time, while the
\* engine rewrites the file with the latest frame of one run.
NextRace ==
    \/ \E s \in Steps : NewerStep(s) /\ ChildRewrite(s)
    \/ \E o \in Observers : HandlerCheck(o)
    \/ \E o \in Observers : HandlerWipe(o)
    \/ \E o \in Observers : HandlerUpdateLine(o)
    \/ Start
    \/ GetStepLine

SpecRace == Init /\ [][NextRace]_vars

\* The alignment functions, called with every list of candidate scores.
NextAlign ==
    \/ \E scores \in ScoreLists : ScoreRmsdCall(scores)
    \/ \E scores \in ScoreLists, matches \in MatchCounts, rs \in BOOLEAN :
           MatchAtomsCall(scores, matches, rs)
    \/ \E given \in GivenMappings, scores \in ScoreLists, accepts \in BOOLEAN :
           RmsdAlignCall(given, scores, accepts)
    \/ \E given \in GivenMappings, scores \in ScoreLists :
           MergeCall(given, scores)
    \/ MergeMatch
    \/ \E accepts \in BOOLEAN : MergeAlign(accepts)
    \/ MergeConstruct

SpecAlign == Init /\ [][NextAlign]_vars

\* getFrames, called with every `indices` on trajectories of every length.
NextFrames ==
    \/ \E n \in 0..MaxTraj, indices \in IndexArguments : GetFramesCall(n, indices)

SpecFrames == Init /\ [][NextFrames]_vars

\* Construction, with every exe argument in every surroundings.
NextConstruct ==
    \/ \E exe \in ExeArguments, amber_home \in AmberHomes,
          on_path, is_custom, config_exists \in BOOLEAN :
           Construct(exe, amber_home, on_path, is_custom, config_exists)

SpecConstruct == InitDisk /\ [][NextConstruct]_vars

\* Runs one after the other on one handle: the child exits or wait()
\* returns, start() is called again, and the owning thread asks for the step.
NextRestart ==
    \/ \E s \in Steps : ChildRewrite(s)
    \/ ChildExit
    \/ \E o \in Observers : HandlerCheck(o)
    \/ \E o \in Observers : HandlerWipe(o)
    \/ \E o \in Observers : HandlerUpdate(o)
    \/ Start
    \/ WaitCall
    \/ WaitReturn
    \/ \E ts \in {"False", "True"} : GetStep(ts)

SpecRestart == Init /\ [][NextRestart]_vars

\* The whole query surface on a log whose events are not delivered: the
\* engine rewrites the file with the latest frame of one run, the events
\* stay in the queue of the observer, and the owning thread calls every
\* accessor.
NextSurface ==
    \/ \E s \in Steps : NewerStep(s) /\ ChildRewrite(s)
    \/ Start
    \/ \E r \in RecordNames, ts \in TimeSeriesFlags : GetRecord(r, ts)
    \/ GetRecords
    \/ \E ts \in TimeSeriesFlags : GetStep(ts)
    \/ \E g \in EnergyGetters, ts \in TimeSeriesFlags : GetEnergy(g, ts)
    \/ \E ts \in TimeSeriesFlags : GetTotalEnergy(ts)
    \/ \E ts \in TimeSeriesFlags : GetTime(ts)

SpecSurface == Init /\ [][NextSurface]_vars

\* The handle through its life, the engine rewriting the file with the
\* latest frame of a simulation whose step count grows.
NextWait ==
    \/ \E s \in Steps : NewerStep(s) /\ ChildRewrite(s)
    \/ ChildExit
    \/ \E o \in Observers : HandlerCheck(o)
    \/ \E o \in Observers : HandlerWipe(o)
    \/ \E o \in Observers : HandlerUpdate(o)
    \/ Start
    \/ WaitCall
    \/ WaitReturn

\* The threads that keep running: the owning thread inside wait() polls
\* isRunning() once a second and goes on when the child is gone, and the
\* observer threads do not all stand still while one of them has an event
\* to take or a callback to go on with.  Nothing makes the child write or
\* exit.
FairThreads ==
    /\ WF_vars(WaitReturn)
    /\ WF_vars(\E o \in Observers :
                   HandlerCheck(o) \/ HandlerWipe(o) \/ HandlerUpdate(o))

SpecWait == Init /\ [][NextWait]_vars /\ FairThreads

\* ----------------------------------------------------------------- steps
\* A step in which the update routine runs on the owning thread.
QueryStep ==
    \/ \E r \in RecordNames, ts \in TimeSeriesFlags : GetRecord(r, ts)
    \/ \E ts \in TimeSeriesFlags : GetStep(ts)
    \/ \E g \in EnergyGetters, ts \in TimeSeriesFlags : GetEnergy(g, ts)
    \/ \E ts \in TimeSeriesFlags : GetTotalEnergy(ts)
    \/ \E ts \in TimeSeriesFlags : GetTime(ts) /\ protocol # "MINIMISATION"

\* A step in which the update routine runs, on any thread.
UpdateStep == QueryStep \/ \E o \in Observers : HandlerUpdate(o)

\* A step of an observer thread inside its callback.
CallbackStep ==
    \E o \in Observers : HandlerCheck(o) \/ HandlerWipe(o) \/ HandlerUpdate(o)

Increasing(st) ==
    \A i \in 1..Len(st) - 1 : ParseNumber(st[i]) < ParseNumber(st[i + 1])

\* The values recorded for a key, none when the store does not hold it.
Series(d, k) == IF k \in DOMAIN d THEN d[k] ELSE <<>>

\* The key a getRecord or getStep request reads.
ReplyKey == Upper(Strip(reply.arg))

\* ------------------------------------------------------------- properties
\* One frame has been written since the last update and it repeats the frame
\* before it: its step count is the last one recorded.
DuplicateFed ==
    LET st == FileSteps(nrg_file)
    IN /\ writes = 1
       /\ Len(st) >= 1
       /\ "NSTEP" \in DOMAIN stdout_dict
       /\ Last(st) = Last(stdout_dict["NSTEP"])
       /\ Len(st) >= 2 => st[Len(st) - 1] = Last(st)

\* C1: when a frame identical to the last recorded one is fed and the update
\* routine runs, nothing is appended: every key's sequence stays what it was
\* after the previous update.
C1_DuplicateFrameAppendsNothing ==
    [][(UpdateStep /\ DuplicateFed) => stdout_dict' = stdout_dict]_vars

\* One frame has been written since the last update, the frames of the file
\* have strictly increasing step counts and the new one is above every step
\* count recorded so far.
NewFrameFed ==
    LET st == FileSteps(nrg_file)
    IN /\ writes = 1
       /\ Len(st) >= 1
       /\ Increasing(st)
       /\ Increasing(Series(stdout_dict, "NSTEP") \o <<Last(st)>>)

\* C2: with frames of strictly increasing step counts fed one update per
\* frame, the update appends the new frame's value to every key of the frame,
\* so that the NSTEP series lists the step counts in arrival order.
C2_OneRecordPerNewFrame ==
    [][(UpdateStep /\ NewFrameFed) =>
         /\ Series(stdout_dict', "NSTEP")
              = Append(Series(stdout_dict, "NSTEP"), Last(FileSteps(nrg_file)))
         /\ \A k \in FrameKeys(protocol) \ {"NSTEP"} :
              Series(stdout_dict', k) = Append(Series(stdout_dict, k), EnergyText)
      ]_vars

C4_UnchangedLogUnchangedStore ==
    [][(UpdateStep /\ writes = 0) => stdout_dict' = stdout_dict]_vars

\* C5: a start leaves the handle not watching; it starts watching only in
\* the callback of a 'modified' event, which installs an empty store; while
\* the handle is watching no step empties a store that holds records; an
\* event of another type changes neither the flag nor the store.
C5_WatcherStateMachine ==
    [][/\ (Start /\ process # "running") => ~is_watching'
       /\ (~is_watching /\ is_watching') =>
             /\ \E o \in Observers : HandlerWipe(o)
             /\ stdout_dict' = EmptyDict
       /\ (is_watching /\ stdout_dict # EmptyDict) => stdout_dict' # EmptyDict
       /\ \A o \in Observers :
             (HandlerCheck(o) /\ Head(queue[o]) # "modified") =>
                 /\ hpc'[o] = "idle"
                 /\ UNCHANGED <<is_watching, stdout_dict>>
      ]_vars

\* C6: once kill() has returned, no observer callback runs.
C6_NoCallbackAfterKill ==
    [][last_call = "kill" => ~CallbackStep]_vars

\* C7: once wait() has returned, no observer callback changes the store.
C7_NoStoreChangeAfterWait ==
    [][last_call = "wait" => ~(CallbackStep /\ stdout_dict' # stdout_dict)]_vars

\* C8: at most one observer thread of the handle is live.
C8_SingleObserver ==
    Cardinality({o \in Observers : observer[o] = "live"}) <= 1

\* C9: a query for a key the store does not hold returns None (it does not
\* raise), whether the store is empty or holds other keys.
C9_UnseenKeyAbsent ==
    (reply.fn # "none" /\ ReplyKey \notin reply.keys) => reply.ret = NoneValue

\* C9 witness: a query for an unseen key was answered None by a store that
\* holds other keys.
C9_Witness ==
    /\ reply.fn = "getRecord"
    /\ reply.keys # {}
    /\ ReplyKey \notin reply.keys
    /\ reply.ret = NoneValue

\* C10: a request for the step-count key, by getStep or by getRecord with
\* any spelling of NSTEP, is answered with integers; a request for another
\* key with floating point values.
C10_StepCountIsInteger ==
    (reply.fn # "none" /\ reply.ret # NoneValue) =>
        IF ReplyKey = "NSTEP"
        THEN reply.ret.tag \in {"int", "int_list"}
        ELSE reply.ret.tag \in {"float", "float_list"}

\* C11: a query with a time_series argument that is not a bool, for a key
\* the store holds, does not raise: it warns and returns the latest single
\* value of the key, for every accessor that takes the flag.
C11_NonBoolFlagCoerced ==
    (reply.fn # "none" /\ NotBool(reply.ts) /\ ReplyKey \in reply.keys) =>
        /\ reply.raised = "none"
        /\ reply.warned
        /\ reply.ret.tag \in {"int", "float"}
        /\ reply.ret.vals = <<ParseNumber(Last(stdout_dict[ReplyKey]))>>

\* C12: the update routine never raises, whatever the file holds: no query
\* ends in an exception of the routine and no observer thread is ended by
\* one.
C12_UpdateNeverRaises ==
    /\ reply.raised # "IndexError"
    /\ \A o \in Observers : observer[o] # "crashed"

\* C20: once a frame is complete in the file and the update routine has run
\* on it, every key of the frame is recorded exactly once for it, also when
\* the routine had read the frame before with part of its lines written: the
\* step counts recorded are distinct and every key of the frame has one
\* value per step count.
C20_PartialFrameRecordedOnce ==
    (FileComplete /\ writes = 0) =>
        /\ Increasing(Series(stdout_dict, "NSTEP"))
        /\ \A k \in FrameKeys(protocol) :
               Len(Series(stdout_dict, k)) = Len(Series(stdout_dict, "NSTEP"))

\* C19: whatever the interleaving of the callback of the observer thread
\* with the update of a query on the owning thread, once both are out of the
\* callback and the update routine no frame has been appended twice and the key sequences
\* are in lock-step.
C19_InterleavedUpdatesKeepStore ==
    (/\ \A t \in Threads : upd[t] = NotReading
     /\ \A o \in Observers : hpc[o] = "idle") =>
        /\ Increasing(Series(stdout_dict, "NSTEP"))
        /\ \A k \in DOMAIN stdout_dict :
               Len(stdout_dict[k]) = Len(Series(stdout_dict, "NSTEP"))

\* The place of a mapping in the list of candidates of the call.
InputIndex(m) == CHOOSE i \in 1..Len(call.mappings) : call.mappings[i] = m

\* C13: the mappings _score_rmsd returns are a permutation of the
\* candidates, each with its own score, in the order of non-decreasing
\* score, and candidates of equal score keep their input order.
C13_StableSortByScore ==
    call.fn = "_score_rmsd" =>
        LET out == call.ret.mappings
            os == call.ret.scores
        IN /\ Len(out) = Len(call.mappings)
           /\ {out[i] : i \in 1..Len(out)}
                = {call.mappings[i] : i \in 1..Len(call.mappings)}
           /\ \A i \in 1..Len(out) :
                  os[i] = Angstrom(call.scores[InputIndex(out[i])])
           /\ \A i, j \in 1..Len(out) :
                  i < j =>
                     /\ os[i].value <= os[j].value
                     /\ os[i].value = os[j].value
                           => InputIndex(out[i]) < InputIndex(out[j])

\* C13 witness: a list with two candidates of equal score and one that the
\* sort moves in front of them.
C13_Witness ==
    /\ call.fn = "_score_rmsd"
    /\ Len(call.scores) = 3
    /\ call.scores[1] = call.scores[2]
    /\ call.scores[3] < call.scores[1]
    /\ call.ret.mappings = <<"m3", "m1", "m2">>

\* The candidates of the call from best to worst: by score, and by their
\* place in the list among equal scores.
Better(i, j) ==
    \/ call.scores[i] < call.scores[j]
    \/ call.scores[i] = call.scores[j] /\ i < j
Ranked ==
    [r \in 1..Len(call.mappings) |->
        call.mappings[CHOOSE i \in 1..Len(call.mappings) :
            Cardinality({j \in 1..Len(call.mappings) : Better(j, i)}) = r - 1]]

\* C14: with at least one candidate, matchAtoms with matches = 1 returns one
\* mapping, the best, and not a list; with matches = K > 1 and N < K
\* candidates it returns all N, best first.
C14_OneMatchOrAllCandidates ==
    (call.fn = "matchAtoms" /\ Len(call.mappings) >= 1) =>
        /\ call.matches = 1 =>
              /\ call.ret.tag = "mapping"
              /\ call.ret.mappings = <<Ranked[1]>>
        /\ (call.matches > 1 /\ Len(call.mappings) < call.matches) =>
              /\ call.ret.tag \in {"list", "tuple"}
              /\ call.ret.mappings = Ranked

\* C14 witness: one match asked of two or more candidates, the best of which
\* is not the first of the list.
C14_Witness ==
    /\ call.fn = "matchAtoms"
    /\ call.matches = 1
    /\ Len(call.mappings) >= 2
    /\ call.ret.tag = "mapping"
    /\ call.ret.mappings # <<call.mappings[1]>>

\* C15: merge without a mapping calls matchAtoms, then rmsdAlign with the
\* mapping matchAtoms returned (the best one), then the constructor with the
\* aligned molecule0 and that mapping, in this order; merge with a mapping
\* calls the constructor only, with molecule0 as given.
C15_MergeMatchesAlignsConstructs ==
    (call.fn = "merge" /\ call.pc = "done") =>
        IF call.given = "None"
        THEN LET m == IF Len(call.mappings) >= 1 THEN Ranked[1] ELSE "None"
             IN call.trace =
                  << Called("matchAtoms", Molecule("A"), m),
                     Called("rmsdAlign", Molecule("A"), m),
                     Called("_MergedMolecule", Aligned(Molecule("A"), m), m) >>
        ELSE call.trace =
               << Called("_MergedMolecule", Molecule("A"), call.given) >>

\* C15 witness: a merge without a mapping has constructed the merged
\* molecule; the matcher had several candidates and the best was not the
\* first.
C15_Witness ==
    /\ call.fn = "merge"
    /\ call.pc = "done"
    /\ call.given = "None"
    /\ Len(call.mappings) >= 2
    /\ call.mapping # call.mappings[1]
    /\ call.molecule0 = Aligned(Molecule("A"), call.mapping)

\* C16: on a trajectory of n frames, getFrames with one index succeeds
\* exactly for the indices 0..n-1, returning that frame, and fails (raises)
\* for every other index.
C16_FrameIndexInRange ==
    (call.fn = "getFrames" /\ call.n >= 1 /\ call.indices.kind = "int") =>
        LET x == call.indices.xs[1]
        IN IF x \in 0..call.n - 1
           THEN call.ret = [tag |-> "frames", frames |-> <<x>>]
           ELSE call.ret.tag \notin {"frames", "None"}

\* C17: the executable of the handle is the exe argument when it names an
\* existing file; with no exe argument it is bin/sander under AMBERHOME when
\* that file exists, otherwise what the lookup on PATH finds, and when
\* nothing is found construction fails.
C17_ExecutableResolutionOrder ==
    call.fn = "__init__" =>
        /\ call.exe = "file" => call.exe_attr = "exe"
        /\ (call.exe = "None" /\ call.amber_home = "sander")
              => call.exe_attr = "AMBERHOME/bin/sander"
        /\ (call.exe = "None" /\ call.amber_home # "sander" /\ call.on_path)
              => call.exe_attr = "PATH/sander"
        /\ (call.exe = "None" /\ call.amber_home # "sander" /\ ~call.on_path)
              => call.raised # "none"

\* C18: a construction that is rejected leaves the energy info file of the
\* working directory as it was.
C18_RejectionLeavesNoTrace ==
    (call.fn = "__init__" /\ call.raised # "none") => nrg_file = call.before


\* A run after the first one is under way and its child has not written to
\* the energy info file yet: every modification of the file queues a
\* 'modified' event for the observer that start() created, and that event
\* leaves the queue only through the callback that sets is_watching.  What
\* the store and the file hold in such a state, they held before start().
NothingWrittenSinceRestart ==
    /\ watcher > 1
    /\ process = "running"
    /\ ~is_watching
    /\ queue[watcher] = <<>>
    /\ hpc[watcher] = "idle"

\* C21: after start() for a new run on a handle whose store holds records of
\* an earlier run, no record query returns a value of the earlier run: a
\* step query made before the new run has written anything returns None.
C21_NoValueOfEarlierRun ==
    [][(NothingWrittenSinceRestart /\ \E ts \in {"False", "True"} : GetStep(ts))
          => reply'.ret = NoneValue]_vars


\* C22: every accessor of the query surface updates the store before it
\* reads it: called when a frame is fully written and no event has been
\* delivered, an accessor that returns answers with that frame.  A request
\* for the step count returns the frame's step count as the latest value,
\* getRecords a store whose latest step count is the frame's, and a request
\* for another key of the frame returns a value.
C22_ReadYourOwnWrite ==
    [][(nrg_file # <<>> /\ (QueryStep \/ GetRecords) /\ reply'.raised = "none") =>
          LET s == ParseNumber(Last(FileSteps(nrg_file)))
              ret == reply'.ret
          IN IF reply'.fn = "getRecords"
             THEN /\ "NSTEP" \in DOMAIN ret.vals[1]
                  /\ ParseNumber(Last(ret.vals[1]["NSTEP"])) = s
             ELSE IF ReplyKey' = "NSTEP"
             THEN ret # NoneValue /\ Last(ret.vals) = s
             ELSE ReplyKey' \in FrameKeys(protocol) => ret # NoneValue
      ]_vars


\* C23: matchAtoms called with return_scores=True on at least one candidate
\* returns the scores together with the mappings for every number of
\* matches asked for, one included, and the i-th score is the score of the
\* i-th mapping returned.
C23_ScoresReturnedWithMappings ==
    (/\ call.fn = "matchAtoms"
     /\ call.return_scores
     /\ call.matches >= 0
     /\ Len(call.mappings) >= 1) =>
        /\ call.ret.tag = "tuple"
        /\ Len(call.ret.scores) = Len(call.ret.mappings)
        /\ \A i \in 1..Len(call.ret.mappings) :
               call.ret.scores[i] =
                   Angstrom(call.scores[InputIndex(call.ret.mappings[i])])


\* C24: once the child has exited, a wait() under way returns; while the
\* child is running, a wait() under way does not return.
C24_WaitReturnsOnlyAfterExit ==
    /\ (owner = "wait" /\ process = "exited")
           ~> (owner = "idle" /\ last_call = "wait")
    /\ [][(owner = "wait" /\ process = "running") => owner' = "wait"]_vars

\* C24 witness: wait() was called while the child was running and has
\* returned after the child exited and the callback recorded a frame.
C24_Witness ==
    /\ last_call = "wait"
    /\ owner = "idle"
    /\ process = "exited"
    /\ observer[watcher] = "stopped"
    /\ stdout_dict # EmptyDict


\* C25: start() called while the child is running changes nothing: the
\* child, the observers, the watcher and the is_watching flag are as they
\* were, as is everything else.
C25_StartWhileRunningChangesNothing ==
    [][(Start /\ process = "running") => UNCHANGED vars]_vars

\* C25 witness: start() can be called in a state where its body would show:
\* the child is running, the callback has set is_watching, the store holds
\* a record and an observer is left to create.  The call leaves this state
\* as it is.
C25_Witness ==
    /\ ENABLED Start
    /\ process = "running"
    /\ is_watching
    /\ stdout_dict # EmptyDict
    /\ observer[watcher] = "live"
    /\ \E o \in Observers : observer[o] = "unborn"


\* C26: with no mapping given and no candidate found, neither rmsdAlign nor
\* merge passes the absent mapping on: rmsdAlign builds no matcher from
\* None for the superposition, and merge calls neither rmsdAlign (which
\* hands its mapping to the superposition) nor the constructor of the
\* merged molecule with None.
C26_AbsentMappingNotPassedOn ==
    (call.fn \in {"rmsdAlign", "merge"} /\ call.given = "None"
        /\ Len(call.mappings) = 0) =>
        /\ call.fn = "rmsdAlign" => call.matcher # "None"
        /\ call.fn = "merge" =>
              \A i \in 1..Len(call.trace) :
                  call.trace[i].op \in {"rmsdAlign", "_MergedMolecule"}
                      => call.trace[i].mapping # "None"

====
